---- MODULE Spec2Model ----
\* A model of dynamodb-stream-pipe: App.Run (pipe.go) drains one shard of a
\* DynamoDB stream and hands every record, as a one-record JSON envelope, to a
\* freshly spawned sink process.  Run is one sequential routine; the model cuts
\* it at its blocking points (provider calls, pipe write, process wait, sleeps).
EXTENDS Integers, Sequences, FiniteSets, TLC

\* ------------------------------------------------------------------ bounds
MaxPolls == 2      \* the provider closes the shard at the latest on this poll
MaxBatch == 2      \* records per GetRecords response

\* ------------------------------------------------------- values and inputs
Nil == "<nil>"                 \* a nil *string
NilTime == -1                  \* a nil *time.Time
NilBody == [absent |-> TRUE]   \* a nil *dynamodbstreams.StreamRecord

TrimHorizon == "TRIM_HORIZON"  \* dynamodbstreams.ShardIteratorTypeTrimHorizon

Table == "table"
StreamArns == {"arn:stream"}

\* the k-th shard iterator the provider issues in a run; the service never
\* issues the same iterator twice
Token(k) == "tok-" \o ToString(k)
Tokens == { Token(k) : k \in 1..(MaxPolls + 1) }

\* capacity of the OS pipe behind cmd.StdinPipe, in the unit of SizeBytes
PipeCapacity == 2

\* ------------------------------------------------------- attribute values
\* bound on the nesting of list and map attribute values that are tried
MaxDepth == 3

\* a Go value that may be nil: << >> is nil, << x >> is the non-nil value x
None == << >>
Some(x) == << x >>
IsNil(o) == Len(o) = 0

\* dynamodb.AttributeValue: ten optional fields
Tags == {"B", "BOOL", "BS", "L", "M", "N", "NS", "NULL", "S", "SS"}
EmptyAV == [t \in Tags |-> None]
AV(tag, val) == [EmptyAV EXCEPT ![tag] = Some(val)]
AV2(tag1, val1, tag2, val2) ==
    [EmptyAV EXCEPT ![tag1] = Some(val1), ![tag2] = Some(val2)]

Populated(a) == { t \in Tags : ~IsNil(a[t]) }

LeafS == AV("S", "a")
LeafN == AV("N", "42")

\* one value, or more, of every variant; empty containers are non-nil
Leaves ==
    { AV("B", "hi"), AV("B", ""), AV("BOOL", TRUE), AV("BOOL", FALSE),
      AV("BS", << "hi", "bye" >>), LeafN, AV("NS", << "1", "2" >>),
      AV("NULL", TRUE), LeafS, AV("SS", << "a", "b" >>),
      AV("L", << >>), AV("M", << >>) }

\* lists and maps nested up to d levels around a scalar
RECURSIVE Nested(_)
Nested(d) ==
    IF d = 0 THEN {LeafS, AV("BOOL", FALSE)}
    ELSE LET sub == Nested(d - 1)
         IN {LeafS, AV("BOOL", FALSE)}
            \cup { AV("L", << x >>) : x \in sub }
            \cup { AV("L", << LeafN, x >>) : x \in sub }
            \cup { AV("M", [k \in {"k1"} |-> x]) : x \in sub }
            \cup { AV("M", [k \in {"k1", "k2"} |-> IF k = "k1" THEN LeafS ELSE x]) : x \in sub }

\* values the wire format cannot describe: no variant, or several
Malformed ==
    { EmptyAV,
      AV2("S", "a", "N", "42"),
      AV2("L", << LeafS >>, "S", "a"),
      AV2("M", [k \in {"k1"} |-> LeafN], "NULL", TRUE),
      AV2("B", "hi", "BOOL", TRUE) }

AttrInputs == Leaves \cup Nested(MaxDepth) \cup Malformed

\* the result types AttributeValueB .. AttributeValueSS, and a nil interface
GoNil == [go |-> "nil"]
AttributeValueB(v) == [go |-> "AttributeValueB", B |-> v]
AttributeValueBOOL(v) == [go |-> "AttributeValueBOOL", BOOL |-> v]
AttributeValueBS(v) == [go |-> "AttributeValueBS", BS |-> v]
AttributeValueL(v) == [go |-> "AttributeValueL", L |-> v]
AttributeValueM(v) == [go |-> "AttributeValueM", M |-> v]
AttributeValueN(v) == [go |-> "AttributeValueN", N |-> v]
AttributeValueNS(v) == [go |-> "AttributeValueNS", NS |-> v]
\* a copy-and-paste slip: the NULL marker wrapped as a boolean attribute
AttributeValueNULLAsBOOL(v) == [go |-> "AttributeValueBOOL", BOOL |-> v]
AttributeValueNULL(v) == [go |-> "AttributeValueNULL", NULL |-> v]
AttributeValueS(v) == [go |-> "AttributeValueS", S |-> v]
AttributeValueSS(v) == [go |-> "AttributeValueSS", SS |-> v]

\* the if-chain in the order of the struct's field declarations
VariantFieldOrder(a) ==
    IF ~IsNil(a.B) THEN "B"
    ELSE IF ~IsNil(a.BOOL) THEN "BOOL"
    ELSE IF ~IsNil(a.BS) THEN "BS"
    ELSE IF ~IsNil(a.L) THEN "L"
    ELSE IF ~IsNil(a.M) THEN "M"
    ELSE IF ~IsNil(a.N) THEN "N"
    ELSE IF ~IsNil(a.NS) THEN "NS"
    ELSE IF ~IsNil(a.NULL) THEN "NULL"
    ELSE IF ~IsNil(a.S) THEN "S"
    ELSE IF ~IsNil(a.SS) THEN "SS"
    ELSE "nil"

\* the if-chain of NewAttributeValue: the first test that succeeds decides
Variant(a) ==
    IF ~IsNil(a.B) THEN "B"
    ELSE IF ~IsNil(a.BOOL) THEN "BOOL"
    ELSE IF ~IsNil(a.BS) THEN "BS"
    ELSE IF ~IsNil(a.N) THEN "N"
    ELSE IF ~IsNil(a.NS) THEN "NS"
    ELSE IF ~IsNil(a.NULL) THEN "NULL"
    ELSE IF ~IsNil(a.S) THEN "S"
    ELSE IF ~IsNil(a.SS) THEN "SS"
    ELSE IF ~IsNil(a.L) THEN "L"
    ELSE IF ~IsNil(a.M) THEN "M"
    ELSE "nil"

\* r[idx] filled from the other end of the list
ListIndexReversed(n, i) == n + 1 - i

\* r[idx] = NewAttributeValue(l[idx])
ListIndex(n, i) == i

RECURSIVE NewAttributeValue(_), NewAttributeValueList(_), NewAttributeValueMap(_)

\* NewAttributeValueMap: a nil map ranges like an empty one
NewAttributeValueMap(m) ==
    LET mm == IF IsNil(m) THEN << >> ELSE m[1]
    IN [k \in DOMAIN mm |-> NewAttributeValue(mm[k])]

NewAttributeValueList(l) ==
    LET ll == IF IsNil(l) THEN << >> ELSE l[1]
    IN [i \in 1..Len(ll) |-> NewAttributeValue(ll[ListIndex(Len(ll), i)])]

NewAttributeValue(a) ==
    LET t == Variant(a)
    IN CASE t = "B" -> AttributeValueB(a.B[1])
         [] t = "BOOL" -> AttributeValueBOOL(a.BOOL[1])
         [] t = "BS" -> AttributeValueBS(a.BS[1])
         [] t = "N" -> AttributeValueN(a.N[1])
         [] t = "NS" -> AttributeValueNS(a.NS[1])
         [] t = "NULL" -> AttributeValueNULL(a.NULL[1])
         [] t = "S" -> AttributeValueS(a.S[1])
         [] t = "SS" -> AttributeValueSS(a.SS[1])
         [] t = "L" -> AttributeValueL(NewAttributeValueList(a.L))
         [] t = "M" -> AttributeValueM(NewAttributeValueMap(a.M))
         [] OTHER -> GoNil

\* ------------------------------------------------------------------- JSON
\* the documents of encoding/json, as tagged values
JNull == [t |-> "null"]
JStr(x) == [t |-> "string", v |-> x]
JBool(x) == [t |-> "bool", v |-> x]
JNum(x) == [t |-> "number", v |-> x]
JArr(x) == [t |-> "array", v |-> x]
JObj(x) == [t |-> "object", v |-> x]

\* a []byte is written in base64
Base64(b) ==
    CASE b = "" -> ""
      [] b = "hi" -> "aGk="
      [] b = "bye" -> "Ynll"

\* a *string: null when nil
JPtr(x) == IF x = Nil THEN JNull ELSE JStr(x)

JStrs(l) == JArr([i \in 1..Len(l) |-> JStr(l[i])])

\* one of the result structs: an object with its one field; nil is null
RECURSIVE JsonValue(_)
JsonValue(x) ==
    LET One(k, j) == JObj([f \in {k} |-> j])
    IN CASE x.go = "nil" -> JNull
         [] x.go = "AttributeValueB" -> One("B", JStr(Base64(x.B)))
         [] x.go = "AttributeValueBOOL" -> One("BOOL", JBool(x.BOOL))
         [] x.go = "AttributeValueBS" ->
               One("BS", JArr([i \in 1..Len(x.BS) |-> JStr(Base64(x.BS[i]))]))
         [] x.go = "AttributeValueN" -> One("N", JStr(x.N))
         [] x.go = "AttributeValueNS" -> One("NS", JStrs(x.NS))
         [] x.go = "AttributeValueNULL" -> One("NULL", JBool(x.NULL))
         [] x.go = "AttributeValueS" -> One("S", JStr(x.S))
         [] x.go = "AttributeValueSS" -> One("SS", JStrs(x.SS))
         [] x.go = "AttributeValueL" ->
               One("L", JArr([i \in 1..Len(x.L) |-> JsonValue(x.L[i])]))
         [] x.go = "AttributeValueM" ->
               One("M", JObj([k \in DOMAIN x.M |-> JsonValue(x.M[k])]))

\* a map[string]interface{} of encoded attribute values
JsonMap(m) == JObj([k \in DOMAIN m |-> JsonValue(m[k])])

\* dynamodbstreams.StreamRecord; the three attribute maps may be nil
BodyImages(ms, seq, size, view, keys, new, old) ==
    [ApproximateCreationDateTime |-> ms, Keys |-> keys, NewImage |-> new,
     OldImage |-> old, SequenceNumber |-> seq, SizeBytes |-> size,
     StreamViewType |-> view]

KeyMap == [k \in {"pk"} |-> AV("S", "id-1")]

\* an image with the key and one more attribute
Image(v) == [k \in {"pk", "attr"} |-> IF k = "pk" THEN AV("S", "id-1") ELSE v]

Body(ms, seq, size) ==
    BodyImages(ms, seq, size, "KEYS_ONLY", Some(KeyMap), None, None)

RawRecord(id, name, body) ==
    [AwsRegion |-> "us-east-1", Dynamodb |-> body, EventID |-> id,
     EventName |-> name, EventSource |-> "aws:dynamodb",
     EventVersion |-> "1.1", UserIdentity |-> Nil]

\* the records the provider can return: two small ones, the second with an
\* attribute value that has no variant, one whose envelope exceeds the pipe
\* capacity, one without a body and one without a creation timestamp
RawRecords ==
    { RawRecord("e1", "INSERT", Body(1500, "100", 1)),
      RawRecord("e2", "MODIFY",
                BodyImages(2999, "101", 2, "NEW_IMAGE", Some(KeyMap),
                           Some(Image(EmptyAV)), None)),
      RawRecord("e3", "INSERT", Body(3000, "102", 3)),
      RawRecord("e4", "REMOVE", NilBody),
      RawRecord("e5", "REMOVE", Body(NilTime, "104", 1)) }

RECURSIVE SeqsUpTo(_, _)
SeqsUpTo(S, n) ==
    IF n = 0 THEN { << >> }
    ELSE LET shorter == SeqsUpTo(S, n - 1)
         IN shorter \cup { Append(s, x) : s \in { t \in shorter : Len(t) = n - 1 }, x \in S }

\* the shard listings DescribeStream can return: none, one, or a parent
\* followed by its child
ShardListings == { << >>, << "shard-1" >>, << "shard-1", "shard-2" >> }
Batches == SeqsUpTo(RawRecords, MaxBatch)

\* ---------------------------------------------------------- transformation
\* time.Time.Unix(): whole seconds of a millisecond timestamp
Unix(ms) == ms \div 1000

\* some attribute of the record's images has no variant
HasNoVariantAttr(r) ==
    /\ r.Dynamodb # NilBody
    /\ \E f \in {"Keys", "NewImage", "OldImage"} :
         /\ ~IsNil(r.Dynamodb[f])
         /\ \E k \in DOMAIN r.Dynamodb[f][1] : r.Dynamodb[f][1][k] = EmptyAV

\* an attribute value without a variant treated as a hard error
TransformPanicsOnNoVariant(r) ==
    \/ r.Dynamodb = NilBody
    \/ r.Dynamodb.ApproximateCreationDateTime = NilTime
    \/ HasNoVariantAttr(r)

\* a nil dereference inside NewRecord / NewStreamRecord
TransformPanics(r) ==
    \/ r.Dynamodb = NilBody
    \/ r.Dynamodb.ApproximateCreationDateTime = NilTime

NewStreamRecord(b) ==
    [ApproximateCreationDateTime |-> Unix(b.ApproximateCreationDateTime),
     Keys |-> NewAttributeValueMap(b.Keys),
     NewImage |-> NewAttributeValueMap(b.NewImage),
     OldImage |-> NewAttributeValueMap(b.OldImage),
     SequenceNumber |-> b.SequenceNumber,
     SizeBytes |-> b.SizeBytes,
     StreamViewType |-> Nil]

NewRecord(r) ==
    [AwsRegion |-> r.AwsRegion, Dynamodb |-> NewStreamRecord(r.Dynamodb),
     EventID |-> r.EventID, EventName |-> r.EventName,
     EventSource |-> r.EventSource, EventVersion |-> r.EventVersion,
     EventSourceArn |-> Nil, UserIdentity |-> r.UserIdentity]

\* records := &DynamoDBEvent{}; nr.EventSourceArn = arn; append
DynamoDBEvent(r, a) ==
    [Records |-> Append(<< >>, [NewRecord(r) EXCEPT !.EventSourceArn = a])]

RECURSIVE SumSizes(_)
SumSizes(recs) ==
    IF recs = << >> THEN 0
    ELSE Head(recs).Dynamodb.SizeBytes + SumSizes(Tail(recs))

\* a map field without omitempty: always written
OmitNever(m) == FALSE

\* json:",omitempty" on a map field: left out when the map has no entry
OmitEmpty(m) == DOMAIN m = {}

\* the StreamRecord struct: field names as keys, the maps with omitempty
JsonStreamRecord(d) ==
    LET maps == { k \in {"Keys", "NewImage", "OldImage"} : ~OmitEmpty(d[k]) }
        keys == maps \cup {"ApproximateCreationDateTime", "SequenceNumber",
                           "SizeBytes", "StreamViewType"}
    IN JObj([k \in keys |->
              CASE k = "ApproximateCreationDateTime" -> JNum(d[k])
                [] k = "SizeBytes" -> JNum(d[k])
                [] k \in {"SequenceNumber", "StreamViewType"} -> JPtr(d[k])
                [] OTHER -> JsonMap(d[k])])

\* a *dynamodbstreams.Identity, here the identity of a service principal
JsonIdentity(x) ==
    IF x = Nil THEN JNull
    ELSE JObj([k \in {"PrincipalId", "Type"} |->
                 IF k = "PrincipalId" THEN JStr(x) ELSE JStr("Service")])

\* the Record struct: only EventSourceArn carries a json tag
JsonRecord(r) ==
    JObj([k \in {"AwsRegion", "Dynamodb", "EventID", "EventName", "EventSource",
                 "EventVersion", "eventSourceARN", "UserIdentity"} |->
            CASE k = "Dynamodb" -> JsonStreamRecord(r.Dynamodb)
              [] k = "eventSourceARN" -> JPtr(r.EventSourceArn)
              [] k = "UserIdentity" -> JsonIdentity(r.UserIdentity)
              [] OTHER -> JPtr(r[k])])

\* the DynamoDBEvent struct
JsonEvent(ev) ==
    JObj([k \in {"Records"} |->
            JArr([i \in 1..Len(ev.Records) |-> JsonRecord(ev.Records[i])])])

\* json.MarshalIndent: the value written, its document and the number of
\* bytes it takes
MarshalIndent(ev) ==
    [doc |-> ev, json |-> JsonEvent(ev), len |-> SumSizes(ev.Records)]

NoJson == [doc |-> [Records |-> << >>], json |-> JNull, len |-> 0]

\* ------------------------------------------------------------------- state
VARIABLES
    pc,         \* position of Run / _main
    err,        \* what Run returned: "running", "nil" or the error message
    status,     \* completion status of the process, -1 while it runs
    arn,        \* dto.Table.LatestStreamArn
    shards,     \* dso.StreamDescription.Shards
    itr,        \* the shard iterator
    records,    \* gro.Records of the current batch
    idx,        \* number of records of the batch the range loop has taken
    rj,         \* the serialized envelope of the current record
    stdin,      \* the sink's input channel
    sink,       \* the sink process of the current record
    calls,      \* provider requests issued so far
    replies,    \* next tokens returned by the successful polls so far
    polled,     \* all records returned by the polls so far
    sinkLog,    \* what each spawned sink process received
    inflightCalls,  \* provider calls outstanding
    inflightProcs,  \* sink processes started and not yet reaped
    delays,     \* time.Sleep calls made so far
    failed,     \* the stages that failed so far
    gsio,       \* gsio.ShardIterator, the reply of GetShardIterator
    lastPoll,   \* the sleeps and sink processes counted at the latest poll
    phase,      \* position of a transformation applied on its own
    av,         \* the attribute value given to NewAttributeValue
    enc,        \* what NewAttributeValue returned for it
    raw,        \* the raw record given to the transformation
    sid,        \* the stream identifier given with it
    event,      \* the DynamoDBEvent built from them
    doc,        \* the JSON document of enc or of event
    command,    \* App.command
    args,       \* App.args
    argsFlag    \* the value of --args that NewApp was given

runVars == << pc, err, status, arn, shards, itr, records, idx, rj, stdin, sink,
              calls, replies, polled, sinkLog, inflightCalls, inflightProcs,
              delays, failed, gsio, lastPoll >>

pureVars == << phase, av, enc, raw, sid, event, doc >>

appVars == << command, args, argsFlag >>

vars == << runVars, pureVars, appVars >>

NoPipe == [state |-> "none", buf |-> 0]

\* no transformation is applied on its own during a run
PureIdle ==
    /\ phase = "run"
    /\ av = EmptyAV
    /\ enc = GoNil
    /\ raw = RawRecord("none", "INSERT", NilBody)
    /\ sid = Nil
    /\ event = [Records |-> << >>]
    /\ doc = JNull

RunInit ==
    /\ pc = "describeTable"
    /\ err = "running"
    /\ status = -1
    /\ arn = Nil
    /\ shards = << >>
    /\ itr = Nil
    /\ records = << >>
    /\ idx = 0
    /\ rj = NoJson
    /\ stdin = NoPipe
    /\ sink = "none"
    /\ calls = << >>
    /\ replies = << >>
    /\ polled = << >>
    /\ sinkLog = << >>
    /\ inflightCalls = 0
    /\ inflightProcs = 0
    /\ delays = 0
    /\ failed = {}
    /\ gsio = Nil
    /\ lastPoll = [delays |-> 0, dispatched |-> 0]

\* a string as the sequence of its characters
Comma == ","
Chars(s) ==
    CASE s = "" -> << >>
      [] s = "-l" -> << "-", "l" >>
      [] s = "-l,-c" -> << "-", "l", ",", "-", "c" >>

\* strings.Split(s, ","): the pieces between the commas, one more than there
\* are commas
RECURSIVE Split(_)
Split(s) ==
    IF \A i \in 1..Len(s) : s[i] # Comma THEN << s >>
    ELSE LET i == CHOOSE j \in 1..Len(s) :
                     s[j] = Comma /\ \A k \in 1..(j - 1) : s[k] # Comma
         IN << SubSeq(s, 1, i - 1) >> \o Split(SubSeq(s, i + 1, Len(s)))

\* the values of --command and --args that are tried; --args is optional and
\* is the empty string when it is left out
Commands == {"wc"}
ArgFlags == {Chars(""), Chars("-l"), Chars("-l,-c")}

\* pipe.go:26-38
NewApp(c, f) ==
    /\ command = c
    /\ argsFlag = f
    /\ args = Split(f)

\* the invocation of the help texts: --command=wc --args=-l
Init == RunInit /\ PureIdle /\ NewApp("wc", Chars("-l"))

\* the same, with every value of the flags
ConfigInit ==
    /\ RunInit
    /\ PureIdle
    /\ \E c \in Commands, f \in ArgFlags : NewApp(c, f)

NumPolls == Len(SelectSeq(calls, LAMBDA c : c.op = "GetRecords"))

\* ---------------------------------------------------------------- helpers
\* return errors.Wrap(err, msg) / errors.New(msg)
ReturnErr(msg) == pc' = "returned" /\ err' = msg

\* a nil pointer dereference or an index out of range: the goroutine panics
Panic == pc' = "panic" /\ err' = err

Goto(l) == pc' = l /\ err' = err

Issue(req) ==
    /\ calls' = Append(calls, req)
    /\ inflightCalls' = inflightCalls + 1

Receive == inflightCalls' = inflightCalls - 1

\* the first shard of the listing instead of the last
SelectShardFirst(s) == s[1]

\* Shards[len(Shards)-1]
SelectShard(s) == s[Len(s)]

\* ---------------------------------------------------------------- actions
\* pipe.go:42 the DescribeTable request goes out
DescribeTableCall ==
    /\ pc = "describeTable"
    /\ Issue([op |-> "DescribeTable", TableName |-> Table])
    /\ Goto("awaitDescribeTable")
    /\ UNCHANGED << status, arn, shards, itr, records, idx, rj, stdin, sink,
                    replies, polled, sinkLog, inflightProcs, delays, failed >>
    /\ UNCHANGED << gsio, lastPoll, pureVars, appVars >>

\* pipe.go:45-50 the response: an error, or a table with or without a stream
DescribeTableReturn ==
    /\ pc = "awaitDescribeTable"
    /\ Receive
    /\ \/ /\ ReturnErr("failed describe table")
          /\ failed' = failed \cup {"describe-table"}
          /\ arn' = arn
       \/ \E a \in StreamArns \cup {Nil, ""} :
            /\ arn' = a
            /\ IF a = Nil THEN Panic
               ELSE IF a = "" THEN ReturnErr("disable dynamodb streams")
               ELSE Goto("describeStream")
            /\ failed' = IF a \in {Nil, ""} THEN failed \cup {"no-stream"} ELSE failed
    /\ UNCHANGED << status, shards, itr, records, idx, rj, stdin, sink, calls,
                    replies, polled, sinkLog, inflightProcs, delays >>
    /\ UNCHANGED << gsio, lastPoll, pureVars, appVars >>

\* pipe.go:51
DescribeStreamCall ==
    /\ pc = "describeStream"
    /\ Issue([op |-> "DescribeStream", StreamArn |-> arn])
    /\ Goto("awaitDescribeStream")
    /\ UNCHANGED << status, arn, shards, itr, records, idx, rj, stdin, sink,
                    replies, polled, sinkLog, inflightProcs, delays, failed >>
    /\ UNCHANGED << gsio, lastPoll, pureVars, appVars >>

\* pipe.go:54-56
DescribeStreamReturn ==
    /\ pc = "awaitDescribeStream"
    /\ Receive
    /\ \/ /\ ReturnErr("failed describe stream")
          /\ failed' = failed \cup {"describe-stream"}
          /\ shards' = shards
       \/ \E l \in ShardListings :
            /\ shards' = l
            /\ Goto("getShardIterator")
            /\ failed' = failed
    /\ UNCHANGED << status, arn, itr, records, idx, rj, stdin, sink, calls,
                    replies, polled, sinkLog, inflightProcs, delays >>
    /\ UNCHANGED << gsio, lastPoll, pureVars, appVars >>

\* pipe.go:57-61 building the request indexes the last shard of the listing
GetShardIteratorCall ==
    /\ pc = "getShardIterator"
    /\ IF shards = << >>
       THEN /\ Panic
            /\ UNCHANGED << calls, inflightCalls >>
       ELSE /\ Issue([op |-> "GetShardIterator",
                      ShardId |-> SelectShard(shards),
                      StreamArn |-> arn,
                      ShardIteratorType |-> TrimHorizon])
            /\ Goto("awaitGetShardIterator")
    /\ UNCHANGED << status, arn, shards, itr, records, idx, rj, stdin, sink,
                    replies, polled, sinkLog, inflightProcs, delays, failed >>
    /\ UNCHANGED << gsio, lastPoll, pureVars, appVars >>

\* pipe.go:62-65
GetShardIteratorReturn ==
    /\ pc = "awaitGetShardIterator"
    /\ Receive
    /\ \/ /\ ReturnErr("failed get shard iterator")
          /\ failed' = failed \cup {"get-shard-iterator"}
          /\ itr' = itr
          /\ gsio' = gsio
       \/ \E t \in {Token(1), Nil} :
            /\ gsio' = t
            /\ itr' = t
            /\ Goto("getRecords")
            /\ failed' = failed
    /\ UNCHANGED << status, arn, shards, records, idx, rj, stdin, sink, calls,
                    replies, polled, sinkLog, inflightProcs, delays >>
    /\ UNCHANGED << lastPoll, pureVars, appVars >>

\* pipe.go:67-70 the loop head logs *itr and polls; lastPoll notes the number
\* of sleeps and of sink processes there were before the request
GetRecordsCall ==
    /\ pc = "getRecords"
    /\ IF itr = Nil
       THEN /\ Panic
            /\ UNCHANGED << calls, inflightCalls, lastPoll >>
       ELSE /\ Issue([op |-> "GetRecords", ShardIterator |-> itr])
            /\ lastPoll' = [delays |-> delays, dispatched |-> Len(sinkLog)]
            /\ Goto("awaitGetRecords")
    /\ UNCHANGED << status, arn, shards, itr, records, idx, rj, stdin, sink,
                    replies, polled, sinkLog, inflightProcs, delays, failed >>
    /\ UNCHANGED << gsio, pureVars, appVars >>

\* the next tokens the provider may answer with: the shard is closed at the
\* latest on poll MaxPolls
NextTokens ==
    IF NumPolls < MaxPolls THEN {Token(NumPolls + 1), Nil, ""} ELSE {Nil, ""}

\* a failed poll that is retried with the same token instead of returned
GetRecordsFailedRetry ==
    /\ pc = "awaitGetRecords"
    /\ Receive
    /\ Goto("getRecords")
    /\ failed' = failed \cup {"get-records"}
    /\ UNCHANGED << status, arn, shards, itr, records, idx, rj, stdin, sink,
                    calls, replies, polled, sinkLog, inflightProcs, delays >>
    /\ UNCHANGED << gsio, lastPoll, pureVars, appVars >>

\* pipe.go:71-73 the poll failed
GetRecordsFailed ==
    /\ pc = "awaitGetRecords"
    /\ Receive
    /\ ReturnErr("failed get records")
    /\ failed' = failed \cup {"get-records"}
    /\ UNCHANGED << status, arn, shards, itr, records, idx, rj, stdin, sink,
                    calls, replies, polled, sinkLog, inflightProcs, delays >>
    /\ UNCHANGED << gsio, lastPoll, pureVars, appVars >>

\* a poll whose closure check comes before the batch is ranged over, so that
\* the records of the final batch are dropped
GetRecordsReturnBreakEarly ==
    /\ pc = "awaitGetRecords"
    /\ Receive
    /\ \E b \in Batches, t \in NextTokens :
         /\ itr' = t
         /\ records' = b
         /\ replies' = Append(replies, t)
         /\ polled' = polled \o b
         /\ IF t = "" THEN ReturnErr("nil") ELSE Goto("range")
    /\ idx' = 0
    /\ UNCHANGED << status, arn, shards, rj, stdin, sink, calls, sinkLog,
                    inflightProcs, delays, failed >>
    /\ UNCHANGED << gsio, lastPoll, pureVars, appVars >>

\* a poll whose next token is not stored: itr keeps the token just used
GetRecordsReturnStaleToken ==
    /\ pc = "awaitGetRecords"
    /\ Receive
    /\ \E b \in Batches, t \in NextTokens :
         /\ itr' = itr
         /\ records' = b
         /\ replies' = Append(replies, t)
         /\ polled' = polled \o b
    /\ idx' = 0
    /\ Goto("range")
    /\ UNCHANGED << status, arn, shards, rj, stdin, sink, calls, sinkLog,
                    inflightProcs, delays, failed >>
    /\ UNCHANGED << gsio, lastPoll, pureVars, appVars >>

\* pipe.go:74-76 the poll returned a batch and a next token
GetRecordsReturn ==
    /\ pc = "awaitGetRecords"
    /\ Receive
    /\ \E b \in Batches, t \in NextTokens :
         /\ itr' = t
         /\ records' = b
         /\ replies' = Append(replies, t)
         /\ polled' = polled \o b
    /\ idx' = 0
    /\ Goto("range")
    /\ UNCHANGED << status, arn, shards, rj, stdin, sink, calls, sinkLog,
                    inflightProcs, delays, failed >>
    /\ UNCHANGED << gsio, lastPoll, pureVars, appVars >>

\* pipe.go:76-82 the range loop takes the next record and serializes it
Transform ==
    /\ pc = "range"
    /\ idx < Len(records)
    /\ idx' = idx + 1
    /\ LET r == records[idx + 1]
       IN IF TransformPanics(r)
          THEN Panic /\ rj' = rj
          ELSE Goto("stdinPipe") /\ rj' = MarshalIndent(DynamoDBEvent(r, arn))
    /\ stdin' = NoPipe
    /\ sink' = "none"
    /\ UNCHANGED << status, arn, shards, itr, records, calls, replies, polled,
                    sinkLog, inflightCalls, inflightProcs, delays, failed >>
    /\ UNCHANGED << gsio, lastPoll, pureVars, appVars >>

\* pipe.go:83-84 exec.Command and cmd.StdinPipe; the error is dropped, so a
\* failure leaves stdin nil
StdinPipe ==
    /\ pc = "stdinPipe"
    /\ \/ stdin' = [state |-> "open", buf |-> 0] /\ failed' = failed
       \/ stdin' = [state |-> "nil", buf |-> 0] /\ failed' = failed \cup {"dispatch"}
    /\ Goto("write")
    /\ UNCHANGED << status, arn, shards, itr, records, idx, rj, sink, calls,
                    replies, polled, sinkLog, inflightCalls, inflightProcs, delays >>
    /\ UNCHANGED << gsio, lastPoll, pureVars, appVars >>

\* pipe.go:85 io.WriteString before the process exists: nothing reads the
\* pipe, so the write completes only if the envelope fits the pipe
WriteString ==
    /\ pc = "write"
    /\ IF stdin.state = "nil"
       THEN Panic /\ stdin' = stdin
       ELSE IF rj.len <= PipeCapacity
       THEN Goto("close") /\ stdin' = [stdin EXCEPT !.buf = rj.len]
       ELSE Goto("writeBlocked") /\ stdin' = [stdin EXCEPT !.buf = PipeCapacity]
    /\ UNCHANGED << status, arn, shards, itr, records, idx, rj, sink, calls,
                    replies, polled, sinkLog, inflightCalls, inflightProcs,
                    delays, failed >>
    /\ UNCHANGED << gsio, lastPoll, pureVars, appVars >>

\* a close that is deferred to the end of Run: the channel stays open
StdinCloseDeferred ==
    /\ pc = "close"
    /\ stdin' = stdin
    /\ Goto("combinedOutput")
    /\ UNCHANGED << status, arn, shards, itr, records, idx, rj, sink, calls,
                    replies, polled, sinkLog, inflightCalls, inflightProcs,
                    delays, failed >>
    /\ UNCHANGED << gsio, lastPoll, pureVars, appVars >>

\* pipe.go:86
StdinClose ==
    /\ pc = "close"
    /\ stdin' = [stdin EXCEPT !.state = "closed"]
    /\ Goto("combinedOutput")
    /\ UNCHANGED << status, arn, shards, itr, records, idx, rj, sink, calls,
                    replies, polled, sinkLog, inflightCalls, inflightProcs,
                    delays, failed >>
    /\ UNCHANGED << gsio, lastPoll, pureVars, appVars >>

\* pipe.go:87-90 cmd.CombinedOutput could not start the process
CombinedOutputStartFailed ==
    /\ pc = "combinedOutput"
    /\ ReturnErr("failed cmd")
    /\ failed' = failed \cup {"dispatch"}
    /\ UNCHANGED << status, arn, shards, itr, records, idx, rj, stdin, sink,
                    calls, replies, polled, sinkLog, inflightCalls,
                    inflightProcs, delays >>
    /\ UNCHANGED << gsio, lastPoll, pureVars, appVars >>

\* cmd.Start in place of cmd.CombinedOutput: the loop goes on while the
\* process runs
CombinedOutputStartNoWait ==
    /\ pc = "combinedOutput"
    /\ sink' = "running"
    /\ inflightProcs' = inflightProcs + 1
    /\ sinkLog' = Append(sinkLog, [pid |-> Len(sinkLog) + 1,
                                   path |-> command,
                                   args |-> args,
                                   doc |-> rj.doc,
                                   json |-> rj.json,
                                   bytes |-> stdin.buf,
                                   eof |-> stdin.state = "closed"])
    /\ Goto("sleepRecord")
    /\ UNCHANGED << status, arn, shards, itr, records, idx, rj, stdin, calls,
                    replies, polled, inflightCalls, delays, failed >>
    /\ UNCHANGED << gsio, lastPoll, pureVars, appVars >>

\* pipe.go:87 cmd.CombinedOutput starts the process, which inherits the read
\* end of the pipe: what was written, and end-of-input if it was closed
CombinedOutputStart ==
    /\ pc = "combinedOutput"
    /\ sink' = "running"
    /\ inflightProcs' = inflightProcs + 1
    /\ sinkLog' = Append(sinkLog, [pid |-> Len(sinkLog) + 1,
                                   path |-> command,
                                   args |-> args,
                                   doc |-> rj.doc,
                                   json |-> rj.json,
                                   bytes |-> stdin.buf,
                                   eof |-> stdin.state = "closed"])
    /\ Goto("awaitCmd")
    /\ UNCHANGED << status, arn, shards, itr, records, idx, rj, stdin, calls,
                    replies, polled, inflightCalls, delays, failed >>
    /\ UNCHANGED << gsio, lastPoll, pureVars, appVars >>

\* the exit state of the process ignored (out, _ := cmd.Output())
CmdErrIgnored(code) == FALSE

\* err != nil of CombinedOutput for an exit code
CmdErr(code) == code # 0

\* pipe.go:87-91 the process has read its input to the end and exited;
\* CombinedOutput returns its output and exit state
CombinedOutputWait ==
    /\ pc = "awaitCmd"
    /\ sink = "running"
    /\ sinkLog[Len(sinkLog)].eof
    /\ inflightProcs' = inflightProcs - 1
    /\ \E code \in {0, 1} :
         /\ sink' = IF code = 0 THEN "exit0" ELSE "exit1"
         /\ failed' = IF code = 0 THEN failed ELSE failed \cup {"dispatch"}
         /\ IF CmdErr(code) THEN ReturnErr("failed cmd") ELSE Goto("sleepRecord")
    /\ UNCHANGED << status, arn, shards, itr, records, idx, rj, stdin, calls,
                    replies, polled, sinkLog, inflightCalls, delays >>
    /\ UNCHANGED << gsio, lastPoll, pureVars, appVars >>

\* pipe.go:92
SleepRecord ==
    /\ pc = "sleepRecord"
    /\ delays' = delays + 1
    /\ Goto("range")
    /\ UNCHANGED << status, arn, shards, itr, records, idx, rj, stdin, sink,
                    calls, replies, polled, sinkLog, inflightCalls,
                    inflightProcs, failed >>
    /\ UNCHANGED << gsio, lastPoll, pureVars, appVars >>

\* pipe.go:94-96, 99 the batch is drained: *itr == "" ends the loop
EndOfBatch ==
    /\ pc = "range"
    /\ idx = Len(records)
    /\ IF itr = Nil THEN Panic
       ELSE IF itr = "" THEN ReturnErr("nil")
       ELSE Goto("sleepPoll")
    /\ UNCHANGED << status, arn, shards, itr, records, idx, rj, stdin, sink,
                    calls, replies, polled, sinkLog, inflightCalls,
                    inflightProcs, delays, failed >>
    /\ UNCHANGED << gsio, lastPoll, pureVars, appVars >>

\* an inter-poll sleep that is taken only after an empty batch
SleepPollOnlyWhenIdle ==
    /\ pc = "sleepPoll"
    /\ delays' = IF records = << >> THEN delays + 1 ELSE delays
    /\ Goto("getRecords")
    /\ UNCHANGED << status, arn, shards, itr, records, idx, rj, stdin, sink,
                    calls, replies, polled, sinkLog, inflightCalls,
                    inflightProcs, failed >>
    /\ UNCHANGED << gsio, lastPoll, pureVars, appVars >>

\* pipe.go:97
SleepPoll ==
    /\ pc = "sleepPoll"
    /\ delays' = delays + 1
    /\ Goto("getRecords")
    /\ UNCHANGED << status, arn, shards, itr, records, idx, rj, stdin, sink,
                    calls, replies, polled, sinkLog, inflightCalls,
                    inflightProcs, failed >>
    /\ UNCHANGED << gsio, lastPoll, pureVars, appVars >>

\* cmd/pipe/main.go: _main maps Run's result to the completion status
MainExit ==
    /\ pc = "returned"
    /\ status' = IF err # "nil" THEN 1 ELSE 0
    /\ pc' = "exited"
    /\ UNCHANGED << err, arn, shards, itr, records, idx, rj, stdin, sink,
                    calls, replies, polled, sinkLog, inflightCalls,
                    inflightProcs, delays, failed >>
    /\ UNCHANGED << gsio, lastPoll, pureVars, appVars >>

\* an unrecovered panic ends the process with the runtime's status 2
PanicExit ==
    /\ pc = "panic"
    /\ status' = 2
    /\ pc' = "crashed"
    /\ UNCHANGED << err, arn, shards, itr, records, idx, rj, stdin, sink,
                    calls, replies, polled, sinkLog, inflightCalls,
                    inflightProcs, delays, failed >>
    /\ UNCHANGED << gsio, lastPoll, pureVars, appVars >>

Next ==
    \/ DescribeTableCall
    \/ DescribeTableReturn
    \/ DescribeStreamCall
    \/ DescribeStreamReturn
    \/ GetShardIteratorCall
    \/ GetShardIteratorReturn
    \/ GetRecordsCall
    \/ GetRecordsFailed
    \/ GetRecordsReturn
    \/ Transform
    \/ StdinPipe
    \/ WriteString
    \/ StdinClose
    \/ CombinedOutputStartFailed
    \/ CombinedOutputStart
    \/ CombinedOutputWait
    \/ SleepRecord
    \/ EndOfBatch
    \/ SleepPoll
    \/ MainExit
    \/ PanicExit

Spec == Init /\ [][Next]_vars

\* a run under each configuration
ConfigSpec == ConfigInit /\ [][Next]_vars

\* ------------------------------------------- the transformation on its own
Views == {"KEYS_ONLY", "NEW_IMAGE", "OLD_IMAGE", "NEW_AND_OLD_IMAGES"}
EventNames == {"INSERT", "MODIFY", "REMOVE"}

\* what a record carries: the image after the change exists for an insert or
\* a modification, the image before it for a modification or a removal, and
\* the view type of the stream selects among those
CarriesNew(view, name) ==
    view \in {"NEW_IMAGE", "NEW_AND_OLD_IMAGES"} /\ name \in {"INSERT", "MODIFY"}
CarriesOld(view, name) ==
    view \in {"OLD_IMAGE", "NEW_AND_OLD_IMAGES"} /\ name \in {"MODIFY", "REMOVE"}

TransformInputs ==
    { [RawRecord("e7", name,
                 BodyImages(4001, "107", 2, view, Some(KeyMap),
                            IF CarriesNew(view, name) THEN Some(Image(v)) ELSE None,
                            IF CarriesOld(view, name) THEN Some(Image(v)) ELSE None))
         EXCEPT !.UserIdentity = "dynamodb.amazonaws.com"] :
      view \in Views, name \in EventNames, v \in AttrInputs }

\* an attribute value, or a raw record and a stream identifier, is chosen
PureInit ==
    /\ RunInit
    /\ NewApp("wc", Chars("-l"))
    /\ enc = GoNil
    /\ event = [Records |-> << >>]
    /\ doc = JNull
    /\ \/ /\ phase = "attribute"
          /\ av \in AttrInputs
          /\ raw = RawRecord("none", "INSERT", NilBody)
          /\ sid = Nil
       \/ /\ phase = "record"
          /\ av = EmptyAV
          /\ raw \in TransformInputs
          /\ sid \in {"arn:stream", "arn:other"}

\* record.go NewAttributeValue applied to the attribute value
EncodeAttribute ==
    /\ phase = "attribute"
    /\ enc' = NewAttributeValue(av)
    /\ phase' = "encoded"
    /\ UNCHANGED << runVars, appVars, av, raw, sid, event, doc >>

\* the encoded attribute value as encoding/json writes it
MarshalAttribute ==
    /\ phase = "encoded"
    /\ doc' = JsonValue(enc)
    /\ phase' = "attributeJson"
    /\ UNCHANGED << runVars, appVars, av, enc, raw, sid, event >>

\* pipe.go:77-80 the envelope of the raw record
BuildEvent ==
    /\ phase = "record"
    /\ event' = DynamoDBEvent(raw, sid)
    /\ phase' = "event"
    /\ UNCHANGED << runVars, appVars, av, enc, raw, sid, doc >>

\* pipe.go:81
MarshalEvent ==
    /\ phase = "event"
    /\ doc' = MarshalIndent(event).json
    /\ phase' = "eventJson"
    /\ UNCHANGED << runVars, appVars, av, enc, raw, sid, event >>

PureNext ==
    \/ EncodeAttribute
    \/ MarshalAttribute
    \/ BuildEvent
    \/ MarshalEvent

PureSpec == PureInit /\ [][PureNext]_vars

\* ------------------------------------------------------------ properties
RunOver == pc \in {"returned", "exited", "panic", "crashed"}

\* the last successful poll returned an empty or absent next token
ShardClosed == replies # << >> /\ replies[Len(replies)] \in {Nil, ""}

\* every record polled so far has been handed to a sink process that exited
AllDispatched == Len(sinkLog) = Len(polled) /\ sink # "running"

\* C1: when the N-th poll returns an empty or absent next token and nothing
\* failed, Run has made exactly N GetRecords calls and returns success.
C1_ExactlyNPolls ==
    (RunOver /\ ShardClosed /\ failed = {} /\ AllDispatched)
        => (err = "nil" /\ NumPolls = Len(replies))

\* C2: the sink invocations are the polled records, in poll order and batch
\* order, one fresh process and one single-record envelope per record; at the
\* end of every batch, the final one included, none is missing.
C2_DispatchInOrder ==
    /\ Len(sinkLog) <= Len(polled)
    /\ \A i \in 1..Len(sinkLog) :
         /\ sinkLog[i].pid = i
         /\ Len(sinkLog[i].doc.Records) = 1
         /\ sinkLog[i].doc.Records[1].EventID = polled[i].EventID
         /\ sinkLog[i].doc.Records[1].Dynamodb.SequenceNumber
              = polled[i].Dynamodb.SequenceNumber
    /\ (pc \in {"range", "sleepRecord"}
          => Len(sinkLog) = Len(polled) - Len(records) + idx)
    /\ (pc = "sleepPoll" \/ err = "nil") => Len(sinkLog) = Len(polled)

C2_Witness ==
    /\ err = "nil"
    /\ Len(replies) = 2
    /\ Len(records) = 2
    /\ Len(sinkLog) = 3
    /\ sinkLog[2].doc.Records[1].EventID # sinkLog[3].doc.Records[1].EventID

\* C3: once the sink process of record i exited non-zero, Run has returned
\* the dispatch error; record i is the last one transformed and dispatched
\* and no poll follows.
C3_SinkFailureStops ==
    sink = "exit1" =>
        /\ pc \in {"returned", "exited"}
        /\ err = "failed cmd"
        /\ Len(sinkLog) = Len(polled) - Len(records) + idx
        /\ NumPolls = Len(replies)
        /\ inflightCalls = 0

C3_Witness ==
    /\ sink = "exit1"
    /\ idx < Len(records)
    /\ itr \in Tokens
    /\ pc = "exited"

\* C4: once a GetRecords call failed, Run has returned its error; the failed
\* call is the last provider call, no sink process is started afterwards and
\* what was dispatched before stays dispatched.
C4_PollFailureStops ==
    "get-records" \in failed =>
        /\ pc \in {"returned", "exited"}
        /\ err = "failed get records"
        /\ NumPolls = Len(replies) + 1
        /\ calls[Len(calls)].op = "GetRecords"
        /\ inflightCalls = 0
        /\ inflightProcs = 0
        /\ Len(sinkLog) = Len(polled)

C4_Witness ==
    /\ "get-records" \in failed
    /\ NumPolls = 2
    /\ Len(sinkLog) = 2
    /\ pc = "exited"

\* C5: when describe-table reports no stream (identifier empty or absent) Run
\* fails with the stream-unavailable error, makes no further provider call
\* and spawns no sink process.
C5_NoStreamError ==
    ("no-stream" \in failed /\ arn \in {Nil, ""})
        => /\ err = "disable dynamodb streams"
           /\ Len(calls) = 1
           /\ sinkLog = << >>

\* C6: a run issues at most one get-shard-iterator request, and it names the
\* last shard of the listing, the stream of describe-table and trim horizon.
C6_LastShardTrimHorizon ==
    /\ Cardinality({ i \in DOMAIN calls : calls[i].op = "GetShardIterator" }) <= 1
    /\ \A i \in DOMAIN calls :
         calls[i].op = "GetShardIterator" =>
            /\ shards # << >>
            /\ calls[i].ShardId = shards[Len(shards)]
            /\ calls[i].StreamArn = arn
            /\ arn \in StreamArns
            /\ calls[i].ShardIteratorType = "TRIM_HORIZON"

C6_Witness ==
    /\ \E i \in DOMAIN calls : calls[i].op = "GetShardIterator"
    /\ Len(shards) = 2
    /\ shards[1] # shards[2]
    /\ NumPolls = 1

\* C7: at most one sink process or provider call is in flight at any time;
\* while one is, Run waits for it, so the next record is transformed only
\* after the process was reaped and the next poll only after the batch.
C7_StrictlySequential ==
    /\ inflightCalls + inflightProcs <= 1
    /\ (inflightProcs = 1 <=> pc = "awaitCmd")
    /\ (inflightCalls = 1 <=>
          pc \in {"awaitDescribeTable", "awaitDescribeStream",
                  "awaitGetShardIterator", "awaitGetRecords"})
    /\ (pc \in {"stdinPipe", "write", "close", "combinedOutput"}
          => Len(sinkLog) = Len(polled) - Len(records) + idx - 1)
    /\ (pc = "awaitGetRecords" => Len(sinkLog) = Len(polled))

C7_Witness ==
    /\ inflightProcs = 1
    /\ idx = 2
    /\ NumPolls = 2

\* C8: a sink process exists only after the whole envelope was written and
\* the channel closed, so every process reads the complete envelope followed
\* by end-of-input, and the output is collected after that.
C8_WriteCloseCollect ==
    /\ (stdin.state = "closed" => stdin.buf = rj.len)
    /\ (sink # "none" => stdin.state = "closed" /\ stdin.buf = rj.len)
    /\ \A i \in 1..Len(sinkLog) :
         /\ sinkLog[i].eof
         /\ sinkLog[i].bytes = SumSizes(sinkLog[i].doc.Records)

C8_Witness ==
    /\ sink = "exit0"
    /\ pc = "sleepRecord"
    /\ rj.len = PipeCapacity
    /\ Len(sinkLog) = 2

\* C9: a dispatch that cannot create or write the input channel, or cannot
\* start the process, ends the run with the dispatch error.
C9_DispatchFailureReported ==
    ("dispatch" \in failed /\ pc # "write")
        => (err = "failed cmd" /\ pc \in {"returned", "exited"})

\* C10: Run returns an error exactly when a stage failed, the error names
\* that stage, and the completion status is non-zero exactly when Run
\* returned an error and zero exactly when the shard was drained.
StageError ==
    [x \in {"describe-table", "no-stream", "describe-stream",
            "get-shard-iterator", "get-records", "dispatch"} |->
        CASE x = "describe-table" -> "failed describe table"
          [] x = "no-stream" -> "disable dynamodb streams"
          [] x = "describe-stream" -> "failed describe stream"
          [] x = "get-shard-iterator" -> "failed get shard iterator"
          [] x = "get-records" -> "failed get records"
          [] x = "dispatch" -> "failed cmd"]

C10_ErrorIffStageFailed ==
    pc \in {"exited", "crashed"} =>
        /\ (failed # {} <=> err \notin {"nil", "running"})
        /\ \A x \in failed : err = StageError[x]
        /\ Cardinality(failed) <= 1
        /\ (status # 0 <=> err \notin {"nil", "running"})
        /\ (status = 0 <=> (err = "nil" /\ ShardClosed /\ AllDispatched))

\* ------------------------------------- properties of the transformation
\* exactly one variant populated, in the value and in every member
RECURSIVE WellFormed(_)
WellFormed(a) ==
    /\ Cardinality(Populated(a)) = 1
    /\ ~IsNil(a.L) => \A i \in 1..Len(a.L[1]) : WellFormed(a.L[1][i])
    /\ ~IsNil(a.M) => \A k \in DOMAIN a.M[1] : WellFormed(a.M[1][k])

\* at most one variant populated, in the value and in every member
RECURSIVE Decodable(_)
Decodable(a) ==
    /\ Cardinality(Populated(a)) <= 1
    /\ ~IsNil(a.L) => \A i \in 1..Len(a.L[1]) : Decodable(a.L[1][i])
    /\ ~IsNil(a.M) => \A k \in DOMAIN a.M[1] : Decodable(a.M[1][k])

Max(S) == CHOOSE x \in S : \A y \in S : y <= x
Min(S) == CHOOSE x \in S : \A y \in S : x <= y

\* levels of lists and maps around the innermost value
RECURSIVE Depth(_)
Depth(a) ==
    IF ~IsNil(a.L)
    THEN 1 + Max({0} \cup { Depth(a.L[1][i]) : i \in 1..Len(a.L[1]) })
    ELSE IF ~IsNil(a.M)
    THEN 1 + Max({0} \cup { Depth(a.M[1][k]) : k \in DOMAIN a.M[1] })
    ELSE 0

GoType(tag) == "AttributeValue" \o tag

\* x is the one-variant structure of the well-formed value a, member by member
RECURSIVE SameShape(_, _)
SameShape(a, x) ==
    LET tag == CHOOSE t \in Tags : ~IsNil(a[t])
    IN /\ x.go = GoType(tag)
       /\ DOMAIN x = {"go", tag}
       /\ CASE tag = "L" ->
                 /\ Len(x.L) = Len(a.L[1])
                 /\ \A i \in 1..Len(x.L) : SameShape(a.L[1][i], x.L[i])
            [] tag = "M" ->
                 /\ DOMAIN x.M = DOMAIN a.M[1]
                 /\ \A k \in DOMAIN x.M : SameShape(a.M[1][k], x.M[k])
            [] OTHER -> x[tag] = a[tag][1]

\* C11: for a value with exactly one populated variant at every level, the
\* encoder returns the structure of that variant alone, and list and map
\* members are encoded the same way, in the same order and under the same
\* keys.
C11_OneVariantSameShape ==
    (phase \in {"encoded", "attributeJson"} /\ WellFormed(av))
        => SameShape(av, enc)

C11_Witness ==
    /\ phase = "encoded"
    /\ WellFormed(av)
    /\ Depth(av) >= 3
    /\ ~IsNil(av.L)
    /\ Len(av.L[1]) = 2
    /\ enc.L[1].go = "AttributeValueN"
    /\ enc.L[2].go = "AttributeValueM"

\* reading a document back: the inverse of base64, and the tagged object
UnBase64(x) == CHOOSE b \in {"", "hi", "bye"} : Base64(b) = x

RECURSIVE DecodeValue(_)
DecodeValue(j) ==
    IF j.t # "object" THEN EmptyAV
    ELSE [t \in Tags |->
            IF t \notin DOMAIN j.v THEN None
            ELSE IF j.v[t].t = "null" THEN None
            ELSE CASE t = "B" -> Some(UnBase64(j.v[t].v))
                   [] t = "BS" ->
                        Some([i \in 1..Len(j.v[t].v) |-> UnBase64(j.v[t].v[i].v)])
                   [] t \in {"NS", "SS"} ->
                        Some([i \in 1..Len(j.v[t].v) |-> j.v[t].v[i].v])
                   [] t = "L" ->
                        Some([i \in 1..Len(j.v[t].v) |-> DecodeValue(j.v[t].v[i])])
                   [] t = "M" ->
                        Some([k \in DOMAIN j.v[t].v |-> DecodeValue(j.v[t].v[k])])
                   [] OTHER -> Some(j.v[t].v)]

\* an attribute map of the record body; a key that is left out reads as empty
DecodeMap(body, f) ==
    IF f \notin DOMAIN body THEN << >>
    ELSE [k \in DOMAIN body[f].v |-> DecodeValue(body[f].v[k])]

RawMap(r, f) == IF IsNil(r.Dynamodb[f]) THEN << >> ELSE r.Dynamodb[f][1]

DocBody == doc.v.Records.v[1].v.Dynamodb.v

ImageFields == {"Keys", "NewImage", "OldImage"}

\* C12: decoding the serialized envelope gives back, for every attribute of
\* Keys, NewImage and OldImage and for every member of a list or map, the
\* variant and the value of the input; nothing is lost, added or retagged.
C12_RoundTrip ==
    /\ (phase = "attributeJson" /\ Decodable(av)) => DecodeValue(doc) = av
    /\ (phase = "eventJson"
          /\ \A f \in ImageFields : \A k \in DOMAIN RawMap(raw, f) :
                Decodable(RawMap(raw, f)[k]))
         => \A f \in ImageFields : DecodeMap(DocBody, f) = RawMap(raw, f)

C12_Witness ==
    /\ phase = "eventJson"
    /\ ~IsNil(raw.Dynamodb.NewImage)
    /\ ~IsNil(raw.Dynamodb.OldImage)
    /\ WellFormed(raw.Dynamodb.NewImage[1].attr)
    /\ Depth(raw.Dynamodb.NewImage[1].attr) >= 2
    /\ DecodeMap(DocBody, "NewImage").attr = raw.Dynamodb.NewImage[1].attr

DeclaresNew(view) == view \in {"NEW_IMAGE", "NEW_AND_OLD_IMAGES"}
DeclaresOld(view) == view \in {"OLD_IMAGE", "NEW_AND_OLD_IMAGES"}

\* a key of the body that is written is a non-empty object
NoEmptyImage ==
    \A f \in ImageFields \cap DOMAIN DocBody :
        DocBody[f].t = "object" /\ DOMAIN DocBody[f].v # {}

\* C13 as stated: the body contains NewImage (OldImage) exactly when the view
\* type declares it; an image not carried is left out, neither null nor
\* empty; a KEYS_ONLY body has Keys and no image.
C13_ImagesPerViewType ==
    phase = "eventJson" =>
        /\ "NewImage" \in DOMAIN DocBody <=> DeclaresNew(raw.Dynamodb.StreamViewType)
        /\ "OldImage" \in DOMAIN DocBody <=> DeclaresOld(raw.Dynamodb.StreamViewType)
        /\ NoEmptyImage

\* C13 amended: the body contains NewImage (OldImage) exactly when the raw
\* record carries that image; an image not carried is left out, neither null
\* nor empty; a KEYS_ONLY body has Keys and no image.
C13_ImagesAsCarried ==
    phase = "eventJson" =>
        /\ \A f \in ImageFields :
             f \in DOMAIN DocBody <=> DOMAIN RawMap(raw, f) # {}
        /\ NoEmptyImage
        /\ raw.Dynamodb.StreamViewType = "KEYS_ONLY"
             => ImageFields \cap DOMAIN DocBody = {"Keys"}

C13_Witness ==
    /\ phase = "eventJson"
    /\ raw.Dynamodb.StreamViewType = "NEW_AND_OLD_IMAGES"
    /\ raw.EventName = "REMOVE"
    /\ "OldImage" \in DOMAIN DocBody
    /\ "NewImage" \notin DOMAIN DocBody

\* C14: the record of the envelope carries the raw record's region, event
\* identifier, kind, source, version, identity, sequence number, size and
\* view type unchanged, and the given stream identifier.
C14_FieldsCarried ==
    phase \in {"event", "eventJson"} =>
        LET o == event.Records[1]
        IN /\ o.AwsRegion = raw.AwsRegion
           /\ o.EventID = raw.EventID
           /\ o.EventName = raw.EventName
           /\ o.EventSource = raw.EventSource
           /\ o.EventVersion = raw.EventVersion
           /\ o.UserIdentity = raw.UserIdentity
           /\ o.Dynamodb.SequenceNumber = raw.Dynamodb.SequenceNumber
           /\ o.Dynamodb.SizeBytes = raw.Dynamodb.SizeBytes
           /\ o.Dynamodb.StreamViewType = raw.Dynamodb.StreamViewType
           /\ o.EventSourceArn = sid

\* ------------------------------------------- further properties of a run
Polls == SelectSeq(calls, LAMBDA c : c.op = "GetRecords")

\* C15: when the next poll is due, the delays since the poll before it are
\* the records dispatched since then plus one (one alone after an empty
\* batch); each dispatched record has had its delay when the next record or
\* poll is due.
C15_DelaysBetweenPolls ==
    /\ (pc = "getRecords" /\ NumPolls >= 1) =>
         /\ delays - lastPoll.delays
              = (Len(sinkLog) - lastPoll.dispatched) + 1
         /\ delays > lastPoll.delays
    /\ (pc \in {"range", "stdinPipe", "write", "close", "combinedOutput",
                "sleepPoll"}
          => delays = Len(sinkLog) + NumPolls - 1)

C15_Witness ==
    /\ pc = "getRecords"
    /\ NumPolls = 1
    /\ Len(sinkLog) - lastPoll.dispatched = 2
    /\ delays - lastPoll.delays = 3

\* C16: the provider is asked for the table, the stream and the iterator
\* once each, in that order, before any poll; the first poll uses the
\* iterator obtained, every later poll the next token of the poll before it,
\* and no token is used twice.
C16_TokenChain ==
    /\ \A i \in DOMAIN calls :
         calls[i].op = CASE i = 1 -> "DescribeTable"
                          [] i = 2 -> "DescribeStream"
                          [] i = 3 -> "GetShardIterator"
                          [] OTHER -> "GetRecords"
    /\ Len(Polls) >= 1 => Polls[1].ShardIterator = gsio
    /\ \A k \in 1..(Len(Polls) - 1) : Polls[k + 1].ShardIterator = replies[k]
    /\ \A i, j \in 1..Len(Polls) :
         i # j => Polls[i].ShardIterator # Polls[j].ShardIterator

C16_Witness ==
    /\ Len(Polls) = 2
    /\ Polls[2].ShardIterator = replies[1]
    /\ Polls[1].ShardIterator = gsio
    /\ Len(replies) = 2

\* C17: a record with an attribute value that has no variant is transformed
\* without a fault: that attribute is written as null, the others as usual,
\* and the envelope goes to a sink process.
C17_NoVariantIsNull ==
    /\ \A i \in 1..Len(sinkLog) :
         HasNoVariantAttr(polled[i]) =>
            LET b == sinkLog[i].json.v.Records.v[1].v.Dynamodb.v
            IN /\ b.NewImage.v.attr = JNull
               /\ b.NewImage.v.pk = JsonValue(AttributeValueS("id-1"))
               /\ b.Keys.v.pk = JsonValue(AttributeValueS("id-1"))
               /\ b.SequenceNumber = JStr(polled[i].Dynamodb.SequenceNumber)
    /\ (idx > 0 /\ HasNoVariantAttr(records[idx])) =>
         /\ Len(rj.doc.Records) = 1
         /\ rj.doc.Records[1].EventID = records[idx].EventID
         /\ rj.json.v.Records.v[1].v.Dynamodb.v.NewImage.v.attr = JNull
         /\ pc = "sleepRecord" => sinkLog[Len(sinkLog)].json = rj.json

C17_Witness ==
    /\ pc = "sleepRecord"
    /\ sink = "exit0"
    /\ HasNoVariantAttr(records[idx])
    /\ sinkLog[Len(sinkLog)].json.v.Records.v[1].v.Dynamodb.v.NewImage.v.attr = JNull

\* C18: a run never ends by a runtime fault, whatever the provider answers.
C18_NoRuntimeFault == pc \notin {"panic", "crashed"}

\* C19: the write of the envelope to the input channel never blocks, whatever
\* its size.
C19_WriteNeverBlocks == pc # "writeBlocked"

\* the order in which the variants are tried
Priority == << "B", "BOOL", "BS", "N", "NS", "NULL", "S", "SS", "L", "M" >>

\* C20: the encoder returns the structure of one variant, the first populated
\* one in the order B, BOOL, BS, N, NS, NULL, S, SS, L, M, and nothing of the
\* other populated fields; without a populated field it returns nil.
C20_FirstByPriority ==
    phase \in {"encoded", "attributeJson"} =>
        IF Populated(av) = {} THEN enc = GoNil
        ELSE LET first == Min({ i \in 1..Len(Priority) : Priority[i] \in Populated(av) })
             IN /\ enc.go = GoType(Priority[first])
                /\ DOMAIN enc = {"go", Priority[first]}

C20_Witness ==
    /\ phase = "encoded"
    /\ Populated(av) = {"L", "S"}
    /\ enc = AttributeValueS("a")

\* l is the list of the pieces of f between its commas, in order
RECURSIVE Join(_)
Join(l) ==
    IF Len(l) = 0 THEN << >>
    ELSE IF Len(l) = 1 THEN l[1]
    ELSE l[1] \o << "," >> \o Join(Tail(l))

IsComponents(l, f) ==
    /\ Len(l) >= 1
    /\ Join(l) = f
    /\ \A i \in 1..Len(l) : \A k \in 1..Len(l[i]) : l[i][k] # ","

\* C21: every sink process of a run is started with the configured command
\* and with the comma-separated pieces of the configured args value as its
\* arguments, in order; with an empty args value it is started without
\* arguments.
C21_CommandAndArgs ==
    \A i \in 1..Len(sinkLog) :
        /\ sinkLog[i].path = command
        /\ sinkLog[i].args = sinkLog[1].args
        /\ argsFlag # << >> => IsComponents(sinkLog[i].args, argsFlag)
        /\ argsFlag = << >> => sinkLog[i].args = << >>

====
